---- MODULE Spec2Model ----
(***************************************************************************)
(* HBService (src/hb_service.py): the connection supervisor                *)
(* (_connect_and_subscribe), the health monitor (_health_monitor,          *)
(* _attempt_reconnection), the lifecycle (start, stop), the inbound        *)
(* callbacks, the queries, the batch requests for history and the          *)
(* endpoints of src/api.py that reach them.                                *)
(*                                                                         *)
(* Time is counted in units of five minutes, the staleness threshold of    *)
(* the monitor.  _last_data_received is kept as the value the code         *)
(* computes from it, time_since_last_data = now - _last_data_received,     *)
(* which saturates one unit above the threshold (nothing the monitor does  *)
(* distinguishes larger values).                                           *)
(***************************************************************************)
EXTENDS Integers, Sequences, FiniteSets, TLC

\* ---- bounds of the model -------------------------------------------------
MaxStarts == 2                 \* calls of start() in one behaviour
MaxBatch == 3                  \* rows in one batch of the feed
MaxSymbols == 2                \* symbols in one batch request for history
max_reconnect_attempts == 2    \* HB_MAX_RECONNECT_ATTEMPTS as configured
reconnect_interval == 1        \* HB_RECONNECT_INTERVAL as configured, in time units
health_check_interval == 1     \* HB_HEALTH_CHECK_INTERVAL as configured, in time units

\* ---- program constants ---------------------------------------------------
StaleThreshold == 1            \* timedelta(minutes=5): one time unit

\* hb.online.subscribe_*: the fixed, ordered list of feed subscriptions
Subscriptions ==
    << "options",
       "bluechips/24hs", "bluechips/SPOT",
       "government_bonds/24hs", "government_bonds/SPOT",
       "cedears/24hs", "general_board/24hs",
       "short_term_government_bonds/24hs", "corporate_bonds/24hs",
       "repos" >>

Threads == {"hb-thread", "hb-health"}

VARIABLES
    hb,                    \* self._hb: "None", or the state of the stored handle's channel
    connected,             \* self._connected
    time_since_last_data,  \* now - self._last_data_received, saturated
    connection_attempts,   \* self._connection_attempts
    should_stop,           \* self._should_stop
    lock,                  \* holder of self._lock: "free" or who holds it
    pc,                    \* position of each thread
    hb_local,              \* the local `hb` of a running _connect_and_subscribe
    attempts_read,         \* the value `+= 1` has loaded and not yet stored
    slept,                 \* time units the monitor has spent in its current sleep
    stale_call,            \* this tick of the monitor found stale data while connected
    orphaned,              \* an open connection is referenced by nothing any more
    error_seen,            \* on_error came after the thread's connect call opened its connection
    forced,                \* POST /reconnect was served and no connect call has begun since
    issued,                \* the external calls of each connect call inside its try block
    starts,                \* calls of start() so far
    pc_stop,               \* position of the caller of stop()
    healthy,               \* the provider has stopped failing
    option_prefixes,       \* self.option_prefixes
    stock_prefixes,        \* self.stock_prefixes
    options,               \* self.options, the rows of the DataFrame in order
    everything,            \* self.everything
    cauciones,             \* self.cauciones
    result                 \* what the latest query or batch request returned

conn_vars == << hb, connected, time_since_last_data, connection_attempts,
                should_stop, lock, pc, hb_local, attempts_read,
                slept, stale_call, orphaned, error_seen, forced, issued,
                starts, pc_stop, healthy >>

store_vars == << option_prefixes, stock_prefixes, options, everything,
                 cauciones, result >>

vars == << conn_vars, store_vars >>

Min(a, b) == IF a < b THEN a ELSE b
Max(a, b) == IF a < b THEN b ELSE a

SinceCap == StaleThreshold + 1
SleepCap == Max(2 * reconnect_interval, health_check_interval)

CasPcs == {"cas_teardown", "cas_login", "cas_connect", "cas_subscribe",
           "cas_publish", "cas_except", "cas_incr", "cas_true", "cas_false"}

\* A thread is inside _connect_and_subscribe
InCas(t) == pc[t] \in CasPcs

\* a call of _connect_and_subscribe that has not returned yet
CasRunning(t) == pc[t] \in CasPcs \ {"cas_true", "cas_false"}

\* the thread's call of _connect_and_subscribe has opened its connection and
\* not stored it yet
CasOpened(t) == hb_local[t] = "open"

\* Some connection is open and can deliver callbacks
AnyOpen == hb = "open" \/ orphaned \/ \E t \in Threads : hb_local[t] = "open"

\* HBService.__init__: the fields of a new service
Constructed ==
    /\ hb = "None"
    /\ connected = FALSE
    /\ time_since_last_data = 0
    /\ connection_attempts = 0
    /\ should_stop = FALSE
    /\ lock = "free"
    /\ pc = [t \in Threads |-> "dead"]
    /\ hb_local = [t \in Threads |-> "none"]
    /\ attempts_read = [t \in Threads |-> 0]
    /\ slept = 0
    /\ stale_call = FALSE
    /\ orphaned = FALSE
    /\ error_seen = [t \in Threads |-> FALSE]
    /\ starts = 0
    /\ pc_stop = "idle"
    /\ healthy = FALSE

\* The history of forced reconnects is kept only by the specification that
\* starts it at "no"; everywhere else it stays "untracked".  The log of
\* external calls is kept only by the specification that starts it with an
\* empty log per thread; everywhere else it has no entry for any thread.
Untracked == << >>

Init == Constructed /\ forced = "untracked" /\ issued = Untracked

\* ---- _connect_and_subscribe, step by step --------------------------------

\* one external call and whether it returned
Call(name, ok) == [call |-> name, ok |-> ok]

Issue(t, calls) ==
    IF DOMAIN issued = {} THEN issued ELSE [issued EXCEPT ![t] = @ \o calls]

NoneIssued(t) ==
    IF DOMAIN issued = {} THEN issued ELSE [issued EXCEPT ![t] = << >>]

\* the subscribe calls issued when n of them return: the first n, and the one
\* after them, which raises
Subscribed(n) ==
    [i \in 1 .. Min(n + 1, Len(Subscriptions)) |-> Call(Subscriptions[i], i <= n)]

\* if self._hb: self._hb.online.disconnect(); hb = HomeBroker(...)
CasTeardown(t) ==
    /\ pc[t] = "cas_teardown"
    /\ hb' = IF hb = "None" THEN "None" ELSE "closed"
    /\ hb_local' = [hb_local EXCEPT ![t] = "new"]
    /\ pc' = [pc EXCEPT ![t] = "cas_login"]
    /\ forced' = IF forced = "pending" THEN "no" ELSE forced
    /\ \E ok \in IF healthy THEN {TRUE} ELSE BOOLEAN :
          issued' = IF hb = "None" THEN NoneIssued(t)
                    ELSE Issue(t, << Call("disconnect", ok) >>)
    /\ UNCHANGED << connected, time_since_last_data, connection_attempts,
                    should_stop, lock, attempts_read, slept,
                    stale_call, orphaned, error_seen, starts, pc_stop,
                    healthy, store_vars >>

\* An external call that raises is caught by `except Exception`
CasRaise(t) == pc' = [pc EXCEPT ![t] = "cas_except"]

\* CasLogin that goes on to hb.online.connect() when login raises
CasLoginSwallows(t) ==
    /\ pc[t] = "cas_login"
    /\ \E ok \in IF healthy THEN {TRUE} ELSE BOOLEAN :
          issued' = Issue(t, << Call("login", ok) >>)
    /\ pc' = [pc EXCEPT ![t] = "cas_connect"]
    /\ UNCHANGED << hb, connected, time_since_last_data, connection_attempts,
                    should_stop, lock, hb_local, attempts_read, slept,
                    stale_call, orphaned, error_seen, forced, starts,
                    pc_stop, healthy, store_vars >>

\* hb.auth.login(..., raise_exception=True)
CasLogin(t) ==
    /\ pc[t] = "cas_login"
    /\ \E ok \in IF healthy THEN {TRUE} ELSE BOOLEAN :
          /\ issued' = Issue(t, << Call("login", ok) >>)
          /\ IF ok THEN pc' = [pc EXCEPT ![t] = "cas_connect"] ELSE CasRaise(t)
    /\ UNCHANGED << hb, connected, time_since_last_data, connection_attempts,
                    should_stop, lock, hb_local, attempts_read, slept,
                    stale_call, orphaned, error_seen, forced, starts,
                    pc_stop, healthy, store_vars >>

\* hb.online.connect()
CasConnect(t) ==
    /\ pc[t] = "cas_connect"
    /\ \E ok \in IF healthy THEN {TRUE} ELSE BOOLEAN :
          /\ issued' = Issue(t, << Call("connect", ok) >>)
          /\ IF ok
             THEN /\ pc' = [pc EXCEPT ![t] = "cas_subscribe"]
                  /\ hb_local' = [hb_local EXCEPT ![t] = "open"]
             ELSE /\ CasRaise(t)
                  /\ UNCHANGED hb_local
    /\ UNCHANGED << hb, connected, time_since_last_data, connection_attempts,
                    should_stop, lock, attempts_read, slept,
                    stale_call, orphaned, error_seen, forced, starts,
                    pc_stop, healthy, store_vars >>

\* hb.online.subscribe_options() ... hb.online.subscribe_repos(): the calls are
\* issued in the order of Subscriptions; n of them return before one raises
CasSubscribe(t) ==
    /\ pc[t] = "cas_subscribe"
    /\ \E n \in IF healthy THEN {Len(Subscriptions)} ELSE 0 .. Len(Subscriptions) :
          /\ issued' = Issue(t, Subscribed(n))
          /\ IF n = Len(Subscriptions)
             THEN pc' = [pc EXCEPT ![t] = "cas_publish"]
             ELSE CasRaise(t)
    /\ UNCHANGED << hb, connected, time_since_last_data, connection_attempts,
                    should_stop, lock, hb_local, attempts_read, slept,
                    stale_call, orphaned, error_seen, forced, starts,
                    pc_stop, healthy, store_vars >>

\* CasPublish without the reset of the attempts counter
CasPublishKeepsAttempts(t) ==
    /\ pc[t] = "cas_publish"
    /\ lock = "free"
    /\ hb' = hb_local[t]
    /\ connected' = TRUE
    /\ time_since_last_data' = 0
    /\ orphaned' = (orphaned \/ hb = "open")
    /\ error_seen' = [error_seen EXCEPT ![t] = FALSE]
    /\ issued' = NoneIssued(t)
    /\ UNCHANGED forced
    /\ hb_local' = [hb_local EXCEPT ![t] = "none"]
    /\ pc' = [pc EXCEPT ![t] = "cas_true"]
    /\ UNCHANGED << connection_attempts, should_stop, lock, attempts_read,
                    slept, stale_call, starts, pc_stop, healthy, store_vars >>

\* with self._lock: self._hb = hb; _connected = True; _last_data_received = now;
\* _connection_attempts = 0.  Then return True.
CasPublish(t) ==
    /\ pc[t] = "cas_publish"
    /\ lock = "free"
    /\ hb' = hb_local[t]
    /\ connected' = TRUE
    /\ time_since_last_data' = 0
    /\ connection_attempts' = 0
    /\ orphaned' = (orphaned \/ hb = "open")
    /\ error_seen' = [error_seen EXCEPT ![t] = FALSE]
    /\ issued' = NoneIssued(t)
    /\ UNCHANGED forced
    /\ hb_local' = [hb_local EXCEPT ![t] = "none"]
    /\ pc' = [pc EXCEPT ![t] = "cas_true"]
    /\ UNCHANGED << should_stop, lock, attempts_read, slept, stale_call,
                    starts, pc_stop, healthy, store_vars >>

\* CasExcept without `self._connected = False`
CasExceptStaysConnected(t) ==
    /\ pc[t] = "cas_except"
    /\ lock = "free"
    /\ lock' = t
    /\ attempts_read' = [attempts_read EXCEPT ![t] = connection_attempts]
    /\ orphaned' = (orphaned \/ hb_local[t] = "open")
    /\ error_seen' = [error_seen EXCEPT ![t] = FALSE]
    /\ issued' = NoneIssued(t)
    /\ UNCHANGED forced
    /\ hb_local' = [hb_local EXCEPT ![t] = "none"]
    /\ pc' = [pc EXCEPT ![t] = "cas_incr"]
    /\ UNCHANGED << hb, connected, time_since_last_data, connection_attempts,
                    should_stop, slept, stale_call, starts, pc_stop, healthy,
                    store_vars >>

\* except Exception: with self._lock: self._connected = False; and the load of
\* `self._connection_attempts += 1`
CasExcept(t) ==
    /\ pc[t] = "cas_except"
    /\ lock = "free"
    /\ lock' = t
    /\ connected' = FALSE
    /\ attempts_read' = [attempts_read EXCEPT ![t] = connection_attempts]
    /\ orphaned' = (orphaned \/ hb_local[t] = "open")
    /\ error_seen' = [error_seen EXCEPT ![t] = FALSE]
    /\ issued' = NoneIssued(t)
    /\ UNCHANGED forced
    /\ hb_local' = [hb_local EXCEPT ![t] = "none"]
    /\ pc' = [pc EXCEPT ![t] = "cas_incr"]
    /\ UNCHANGED << hb, time_since_last_data, connection_attempts, should_stop,
                    slept, stale_call, starts, pc_stop, healthy, store_vars >>

\* the store of `self._connection_attempts += 1`, the lock's release, return False
CasIncr(t) ==
    /\ pc[t] = "cas_incr"
    /\ lock = t
    /\ connection_attempts' = attempts_read[t] + 1
    /\ attempts_read' = [attempts_read EXCEPT ![t] = 0]
    /\ lock' = "free"
    /\ pc' = [pc EXCEPT ![t] = "cas_false"]
    /\ UNCHANGED << hb, connected, time_since_last_data, should_stop, hb_local,
                    slept, stale_call, orphaned, error_seen, forced, issued, starts,
                    pc_stop,
                    healthy, store_vars >>

connect_and_subscribe(t) ==
    \/ CasTeardown(t)
    \/ CasLogin(t)
    \/ CasConnect(t)
    \/ CasSubscribe(t)
    \/ CasPublish(t)
    \/ CasExcept(t)
    \/ CasIncr(t)

\* ---- the thread "hb-thread": target=self._connect_and_subscribe ----------

HbThreadStep == connect_and_subscribe("hb-thread")

\* the thread's target has returned: the thread ends
HbThreadEnd ==
    /\ pc["hb-thread"] \in {"cas_true", "cas_false"}
    /\ pc' = [pc EXCEPT !["hb-thread"] = "dead"]
    /\ UNCHANGED << hb, connected, time_since_last_data, connection_attempts,
                    should_stop, lock, hb_local, attempts_read,
                    slept, stale_call, orphaned, error_seen, forced, issued, starts,
                    pc_stop,
                    healthy, store_vars >>


\* ---- _health_monitor and _attempt_reconnection ("hb-health") -------------

MonUnchanged ==
    UNCHANGED << hb, connected, time_since_last_data, should_stop, lock,
                 hb_local, attempts_read, orphaned, error_seen, forced, issued, starts,
                 pc_stop, healthy, store_vars >>

\* MonLoop that never looks at the stop flag
MonLoopIgnoresStop ==
    /\ pc["hb-health"] = "loop"
    /\ pc' = [pc EXCEPT !["hb-health"] = "stale"]
    /\ UNCHANGED << connection_attempts, slept, stale_call >>
    /\ MonUnchanged

\* while not self._should_stop
MonLoop ==
    /\ pc["hb-health"] = "loop"
    /\ pc' = [pc EXCEPT !["hb-health"] = IF should_stop THEN "exit" ELSE "stale"]
    /\ UNCHANGED << connection_attempts, slept, stale_call >>
    /\ MonUnchanged

\* the loop has been left: the thread ends
MonExit ==
    /\ pc["hb-health"] = "exit"
    /\ pc' = [pc EXCEPT !["hb-health"] = "dead"]
    /\ UNCHANGED << connection_attempts, slept, stale_call >>
    /\ MonUnchanged

\* if time_since_last_data > timedelta(minutes=5): self._attempt_reconnection()
MonStale ==
    /\ pc["hb-health"] = "stale"
    /\ IF time_since_last_data > StaleThreshold
       THEN /\ pc' = [pc EXCEPT !["hb-health"] = "policy"]
            /\ stale_call' = connected
       ELSE /\ pc' = [pc EXCEPT !["hb-health"] = "not_connected"]
            /\ stale_call' = FALSE
    /\ UNCHANGED << connection_attempts, slept >>
    /\ MonUnchanged

\* MonNotConnected that invokes the policy whatever _connected is
MonNotConnectedAlways ==
    /\ pc["hb-health"] = "not_connected"
    /\ pc' = [pc EXCEPT !["hb-health"] = "policy"]
    /\ slept' = 0
    /\ UNCHANGED << connection_attempts, stale_call >>
    /\ MonUnchanged

\* elif not self._connected: self._attempt_reconnection()
\* else: time.sleep(self.health_check_interval)
MonNotConnected ==
    /\ pc["hb-health"] = "not_connected"
    /\ pc' = [pc EXCEPT !["hb-health"] = IF ~connected THEN "policy" ELSE "sleep"]
    /\ slept' = 0
    /\ UNCHANGED << connection_attempts, stale_call >>
    /\ MonUnchanged

\* attempt_reconnection with `>` for `>=`
attempt_reconnection_off_by_one ==
    /\ pc["hb-health"] = "policy"
    /\ pc' = [pc EXCEPT !["hb-health"] =
                 IF connection_attempts > max_reconnect_attempts
                 THEN "cooldown" ELSE "cas_teardown"]
    /\ slept' = 0
    /\ UNCHANGED << connection_attempts, stale_call >>
    /\ MonUnchanged

\* _attempt_reconnection: if self._connection_attempts >= self.max_reconnect_attempts
\* then time.sleep(self.reconnect_interval * 2), else self._connect_and_subscribe()
attempt_reconnection ==
    /\ pc["hb-health"] = "policy"
    /\ pc' = [pc EXCEPT !["hb-health"] =
                 IF connection_attempts >= max_reconnect_attempts
                 THEN "cooldown" ELSE "cas_teardown"]
    /\ slept' = 0
    /\ UNCHANGED << connection_attempts, stale_call >>
    /\ MonUnchanged

\* the cooldown without the factor 2
CooldownSleepSingle == reconnect_interval

\* the sleep of 2 * reconnect_interval is over:
\* self._connection_attempts = 0 (without the lock); return
CooldownSleep == 2 * reconnect_interval

\* MonCooldown without the reset of the counter
MonCooldownNoReset ==
    /\ pc["hb-health"] = "cooldown"
    /\ slept >= CooldownSleep
    /\ pc' = [pc EXCEPT !["hb-health"] = "sleep"]
    /\ slept' = 0
    /\ stale_call' = FALSE
    /\ UNCHANGED connection_attempts
    /\ MonUnchanged

MonCooldown ==
    /\ pc["hb-health"] = "cooldown"
    /\ slept >= CooldownSleep
    /\ connection_attempts' = 0
    /\ pc' = [pc EXCEPT !["hb-health"] = "sleep"]
    /\ slept' = 0
    /\ stale_call' = FALSE
    /\ MonUnchanged

\* _connect_and_subscribe() returned: True -> back to the loop's sleep,
\* False -> time.sleep(self.reconnect_interval) first
MonReturn ==
    /\ pc["hb-health"] \in {"cas_true", "cas_false"}
    /\ pc' = [pc EXCEPT !["hb-health"] =
                 IF pc["hb-health"] = "cas_true" THEN "sleep" ELSE "retry_sleep"]
    /\ slept' = 0
    /\ stale_call' = FALSE
    /\ UNCHANGED connection_attempts
    /\ MonUnchanged

\* time.sleep(self.reconnect_interval) is over
MonRetryWake ==
    /\ pc["hb-health"] = "retry_sleep"
    /\ slept >= reconnect_interval
    /\ pc' = [pc EXCEPT !["hb-health"] = "sleep"]
    /\ slept' = 0
    /\ UNCHANGED << connection_attempts, stale_call >>
    /\ MonUnchanged

\* time.sleep(self.health_check_interval) is over
MonWake ==
    /\ pc["hb-health"] = "sleep"
    /\ slept >= health_check_interval
    /\ pc' = [pc EXCEPT !["hb-health"] = "loop"]
    /\ slept' = 0
    /\ UNCHANGED << connection_attempts, stale_call >>
    /\ MonUnchanged

MonCas == connect_and_subscribe("hb-health")

health_monitor ==
    \/ MonLoop
    \/ MonExit
    \/ MonStale
    \/ MonNotConnected
    \/ attempt_reconnection
    \/ MonCooldown
    \/ MonCas
    \/ MonReturn
    \/ MonRetryWake
    \/ MonWake

Sleeping == pc["hb-health"] \in {"cooldown", "retry_sleep", "sleep"}

\* one unit of time passes
Tick ==
    /\ time_since_last_data' = Min(time_since_last_data + 1, SinceCap)
    /\ slept' = IF Sleeping THEN Min(slept + 1, SleepCap) ELSE slept
    /\ UNCHANGED << hb, connected, connection_attempts, should_stop, lock, pc,
                    hb_local, attempts_read, stale_call, orphaned, error_seen,
                    forced, issued,
                    starts, pc_stop, healthy, store_vars >>

\* ---- start() and stop() --------------------------------------------------

\* start that launches both threads whether or not they are alive
start_spawns_always ==
    /\ starts < MaxStarts
    /\ pc_stop = "idle"
    /\ should_stop' = FALSE
    /\ pc' = [t \in Threads |->
                 IF t = "hb-thread" THEN "cas_teardown" ELSE "loop"]
    /\ starts' = starts + 1
    /\ UNCHANGED << hb, connected, time_since_last_data, connection_attempts,
                    lock, hb_local, attempts_read, slept,
                    stale_call, orphaned, error_seen, forced, issued, pc_stop, healthy,
                    store_vars >>

start ==
    /\ starts < MaxStarts
    /\ pc_stop = "idle"
    /\ should_stop' = FALSE
    /\ pc' = [t \in Threads |->
                 IF pc[t] # "dead" THEN pc[t]
                 ELSE IF t = "hb-thread" THEN "cas_teardown" ELSE "loop"]
    /\ starts' = starts + 1
    /\ UNCHANGED << hb, connected, time_since_last_data, connection_attempts,
                    lock, hb_local, attempts_read, slept,
                    stale_call, orphaned, error_seen, forced, issued, pc_stop, healthy,
                    store_vars >>

\* self._should_stop = True
StopFlag ==
    /\ pc_stop = "idle"
    /\ starts > 0
    /\ should_stop' = TRUE
    /\ pc_stop' = "lock"
    /\ UNCHANGED << hb, connected, time_since_last_data, connection_attempts,
                    lock, pc, hb_local, attempts_read, slept,
                    stale_call, orphaned, error_seen, forced, issued, starts, healthy,
                    store_vars >>

\* with self._lock: if self._hb: self._hb.online.disconnect() is called;
\* with no handle: self._connected = False and the lock's release
StopLock ==
    /\ pc_stop = "lock"
    /\ lock = "free"
    /\ IF hb # "None"
       THEN /\ lock' = "stop"
            /\ pc_stop' = "disconnect"
            /\ UNCHANGED connected
       ELSE /\ connected' = FALSE
            /\ pc_stop' = "idle"
            /\ UNCHANGED lock
    /\ UNCHANGED << hb, time_since_last_data, connection_attempts,
                    should_stop, pc, hb_local, attempts_read, slept,
                    stale_call, orphaned, error_seen, forced, issued, starts, healthy,
                    store_vars >>

\* disconnect() has returned or raised (the error is logged);
\* self._connected = False, and the lock's release
StopDisconnect ==
    /\ pc_stop = "disconnect"
    /\ lock = "stop"
    /\ hb' = "closed"
    /\ connected' = FALSE
    /\ lock' = "free"
    /\ pc_stop' = "idle"
    /\ UNCHANGED << time_since_last_data, connection_attempts, should_stop,
                    pc, hb_local, attempts_read, slept, stale_call,
                    orphaned, error_seen, forced, issued, starts, healthy, store_vars >>

stop == StopFlag \/ StopLock \/ StopDisconnect

\* ---- POST /reconnect (src/api.py) ----------------------------------------

force_reconnect ==
    /\ lock = "free"
    /\ starts > 0
    /\ connected' = FALSE
    /\ connection_attempts' = 0
    /\ forced' = IF forced = "untracked" THEN forced ELSE "pending"
    /\ UNCHANGED issued
    /\ UNCHANGED << hb, time_since_last_data, should_stop, lock, pc, hb_local,
                    attempts_read, slept, stale_call, orphaned, error_seen,
                    starts, pc_stop, healthy, store_vars >>

\* ---- callbacks -----------------------------------------------------------

\* on_error that also replenishes the retry budget
on_error_resets_attempts ==
    /\ AnyOpen
    /\ ~healthy
    /\ lock = "free"
    /\ connected' = FALSE
    /\ connection_attempts' = 0
    /\ error_seen' = [t \in Threads |-> error_seen[t] \/ CasOpened(t)]
    /\ UNCHANGED << forced, issued >>
    /\ UNCHANGED << hb, time_since_last_data, should_stop, lock, pc, hb_local,
                    attempts_read, slept, stale_call, orphaned, starts,
                    pc_stop, healthy, store_vars >>

\* with self._lock: self._connected = False
on_error ==
    /\ AnyOpen
    /\ ~healthy
    /\ lock = "free"
    /\ connected' = FALSE
    /\ error_seen' = [t \in Threads |-> error_seen[t] \/ CasOpened(t)]
    /\ UNCHANGED << forced, issued >>
    /\ UNCHANGED << hb, time_since_last_data, connection_attempts, should_stop,
                    lock, pc, hb_local, attempts_read, slept,
                    stale_call, orphaned, starts, pc_stop, healthy, store_vars >>

\* ---- the record store: pandas, as the callbacks use it --------------------
\* A DataFrame is the sequence of its rows, [key |-> index label, val |-> the
\* columns]; NaN is a missing value (no number of the feed is negative here).
\* Numbers are kept in hundredths (fixed point), so that x / 100 is exact on
\* the raw values of the feed.

NaN == -1

\* Div100 that leaves the raw percentage as it is
Div100Unscaled(v) == v

\* x / 100
Div100(v) == IF v = NaN THEN NaN ELSE v \div 100

\* str.startswith
StartsWith(s, p) == Len(p) <= Len(s) /\ SubSeq(s, 1, Len(p)) = p

\* df.index as a set of labels
Keys(df) == {df[i].key : i \in 1 .. Len(df)}

\* the index carries a label more than once
HasDuplicates(df) == \E i, j \in 1 .. Len(df) : i # j /\ df[i].key = df[j].key

\* DataFrame.update(other), other's labels unique: every non-NaN cell of
\* `other` overwrites the cell of the same label and column; nothing is added
UpdateRow(row, other) ==
    IF row.key \notin Keys(other) THEN row
    ELSE LET that == (CHOOSE j \in 1 .. Len(other) : other[j].key = row.key)
         IN  [row EXCEPT !.val = [c \in DOMAIN row.val |->
                 IF other[that].val[c] # NaN THEN other[that].val[c]
                 ELSE row.val[c]]]

Update(df, other) == [i \in 1 .. Len(df) |-> UpdateRow(df[i], other)]

\* df.index as the list of labels
IndexOf(df) == [i \in 1 .. Len(df) |-> df[i].key]

\* update() when other.index equals self.index: reindexing is skipped and the
\* rows are overlaid by position
UpdateInPlace(df, other) ==
    [i \in 1 .. Len(df) |->
        [df[i] EXCEPT !.val = [c \in DOMAIN df[i].val |->
            IF other[i].val[c] # NaN THEN other[i].val[c] ELSE df[i].val[c]]]]

\* self.<table>.update(this_data) inside try/except: unless the two indexes
\* are equal, `other` is reindexed to the table's index, which raises on
\* duplicate labels in `other`; the except clause then leaves the table as
\* it is
TryUpdate(df, other) ==
    IF IndexOf(other) = IndexOf(df) THEN UpdateInPlace(df, other)
    ELSE IF HasDuplicates(other) THEN df
    ELSE Update(df, other)

\* the column transforms of _on_options: change / 100
OptionsTransform(quotes) ==
    [i \in 1 .. Len(quotes) |->
        [key |-> quotes[i].symbol,
         val |-> [bid |-> quotes[i].bid, change |-> Div100(quotes[i].change)]]]

\* the prefix mask of _on_options (idx.str.startswith(prefix), as configured)
PrefixMask(key) ==
    \E i \in 1 .. Len(option_prefixes) :
        option_prefixes[i] # << >> /\ StartsWith(key, option_prefixes[i])

\* OptionsFilter that lets every row through
OptionsFilterOff(this_data) == this_data

\* if self.option_prefixes and not this_data.empty: this_data = this_data[mask]
OptionsFilter(this_data) ==
    IF option_prefixes # << >>
    THEN SelectSeq(this_data, LAMBDA r : PrefixMask(r.key))
    ELSE this_data

\* OptionsConcat that appends the batch without looking at the table's index
OptionsConcatAll(df, this_data) == df \o this_data

\* OptionsConcat that adds nothing
OptionsConcatNever(df, this_data) == df

\* new_index = this_data.index.difference(self.options.index);
\* self.options = pd.concat([self.options, this_data.loc[new_index]])
OptionsConcat(df, this_data) ==
    LET new_index == Keys(this_data) \ Keys(df)
    IN  IF new_index # {}
        THEN df \o SelectSeq(this_data, LAMBDA r : r.key \in new_index)
        ELSE df

\* the table _on_options leaves
OptionsMerge(df, quotes) ==
    LET this_data == OptionsFilter(OptionsTransform(quotes))
    IN  IF this_data = << >> THEN df
        ELSE TryUpdate(OptionsConcat(df, this_data), this_data)

\* the transforms of _on_securities: symbol + " - " + settlement, change / 100
SecuritiesTransform(quotes) ==
    [i \in 1 .. Len(quotes) |->
        [key |-> quotes[i].symbol \o << " - ", quotes[i].settlement >>,
         val |-> [bid |-> quotes[i].bid, change |-> Div100(quotes[i].change)]]]

SecuritiesMerge(df, quotes) == TryUpdate(df, SecuritiesTransform(quotes))

\* "PESOS" in s
HasPesos(symbol) == \E i \in 1 .. Len(symbol) : symbol[i] = "PESOS"

\* the transforms of _on_repos: keep the PESOS rows, index by settlement,
\* last / 100 (bid_rate and ask_rate likewise)
ReposTransform(quotes) ==
    LET pesos == SelectSeq(quotes, LAMBDA q : HasPesos(q.symbol))
    IN  [i \in 1 .. Len(pesos) |->
            [key |-> pesos[i].settlement,
             val |-> [turnover |-> pesos[i].turnover,
                      last |-> Div100(pesos[i].last)]]]

ReposMerge(df, quotes) == TryUpdate(df, ReposTransform(quotes))

\* update() raises: the indexes differ and `other` repeats a label
UpdateRaises(df, other) == IndexOf(other) # IndexOf(df) /\ HasDuplicates(other)

\* the processing of the batch ends in the except clause of _on_options
OptionsRaises(df, quotes) ==
    LET this_data == OptionsFilter(OptionsTransform(quotes))
    IN  /\ this_data # << >>
        /\ UpdateRaises(OptionsConcat(df, this_data), this_data)

\* ---- the feed's batches (bounded) ---------------------------------------

SeqsUpTo(S, n) == UNION {[1 .. k -> S] : k \in 0 .. n}

AL == << "A", "L" >>
GA == << "G", "A" >>

OptionQuotes ==
    {[symbol |-> AL, bid |-> v[1], change |-> v[2]] :
        v \in {<< NaN, 100 >>, << 100, NaN >>, << NaN, 200 >>}}
    \cup {[symbol |-> GA, bid |-> 100, change |-> 100]}

SecurityQuotes ==
    {[symbol |-> << "G" >>, settlement |-> "24hs", bid |-> v[1],
      change |-> v[2]] :
        v \in {<< NaN, 100 >>, << 100, NaN >>, << NaN, 200 >>}}
    \cup {[symbol |-> << "Y" >>, settlement |-> "24hs", bid |-> 100,
           change |-> NaN]}

RepoQuotes ==
    {[symbol |-> k[1], settlement |-> k[2], turnover |-> v[1], last |-> v[2]] :
        k \in {<< << "PESOS" >>, "D1" >>},
        v \in {<< NaN, 100 >>, << 100, NaN >>}}
    \cup {[symbol |-> << "PESOS" >>, settlement |-> "D2", turnover |-> 100,
           last |-> NaN],
          [symbol |-> << "DOLAR" >>, settlement |-> "D1", turnover |-> 100,
           last |-> 100]}

OptionBatches == SeqsUpTo(OptionQuotes, MaxBatch)
SecurityBatches == SeqsUpTo(SecurityQuotes, MaxBatch)
RepoBatches == SeqsUpTo(RepoQuotes, MaxBatch)

\* what the feed of the connection model delivers: an empty batch or, for
\* options, one row
FeedOptions == {<< >>, << [symbol |-> AL, bid |-> NaN, change |-> 100] >>}
FeedSecurities == {<< >>}
FeedRepos == {<< >>}

PrefixConfigs == {<< >>, << << "G" >> >>, << << "A" >> >>}

\* ---- the data callbacks --------------------------------------------------

\* nothing has been asked yet
NoResult == [op |-> "none", view |-> "copy"]

\* what a caller who holds `res` sees once the table `name` has become
\* `table`: a copy stays as it was returned, a view of the table follows it
Held(res, name, table) ==
    IF res.view = name THEN [res EXCEPT !.rows = table] ELSE res

CallbackUnchanged ==
    UNCHANGED << hb, connected, connection_attempts, should_stop, lock, pc,
                 hb_local, attempts_read, slept, stale_call, orphaned,
                 error_seen, forced, issued, starts,
                 pc_stop, healthy, option_prefixes, stock_prefixes >>

on_options(quotes) ==
    /\ lock = "free"
    /\ time_since_last_data' = 0
    /\ options' = OptionsMerge(options, quotes)
    /\ result' = Held(result, "options", options')
    /\ UNCHANGED << everything, cauciones >>
    /\ CallbackUnchanged

on_securities(quotes) ==
    /\ lock = "free"
    /\ time_since_last_data' = 0
    /\ everything' = SecuritiesMerge(everything, quotes)
    /\ result' = Held(result, "everything", everything')
    /\ UNCHANGED << options, cauciones >>
    /\ CallbackUnchanged

on_repos(quotes) ==
    /\ lock = "free"
    /\ time_since_last_data' = 0
    /\ cauciones' = ReposMerge(cauciones, quotes)
    /\ result' = Held(result, "cauciones", cauciones')
    /\ UNCHANGED << options, everything >>
    /\ CallbackUnchanged

\* the tables HBService.__init__ builds from the ticker lists: a row per
\* configured ticker, no quote yet
EmptyRow(k, cols) == [key |-> k, val |-> [c \in cols |-> NaN]]

InitStore(prefixes) ==
    /\ option_prefixes = prefixes
    /\ stock_prefixes = << >>
    /\ result = NoResult
    /\ options = << EmptyRow(AL, {"bid", "change"}) >>
    /\ everything = << EmptyRow(<< "G", " - ", "24hs" >>, {"bid", "change"}) >>
    /\ cauciones = << EmptyRow("D1", {"turnover", "last"}) >>

\* ---- the queries ---------------------------------------------------------

\* an argument left out (Python's None)
None == << "None" >>

\* `if ticker:` / `elif prefix:`: given and not the empty string
Given(arg) == arg # None /\ arg # << >>

\* str.upper, letter by letter
UpperChar(c) ==
    CASE c = "a" -> "A"
      [] c = "g" -> "G"
      [] c = "l" -> "L"
      [] c = "y" -> "Y"
      [] c = "24hs" -> "24HS"
      [] OTHER -> c

Upper(s) == [i \in 1 .. Len(s) |-> UpperChar(s[i])]

\* the mask built from a configured prefix list: startswith(pref.upper()) of
\* any non-empty prefix, on the key as `Clean` leaves it
DefaultMask(key, prefixes) ==
    \E i \in 1 .. Len(prefixes) :
        prefixes[i] # << >> /\ StartsWith(key, Upper(prefixes[i]))

\* the rows get_options returns
GetOptions(df, prefixes, prefix, ticker) ==
    IF Given(ticker) THEN SelectSeq(df, LAMBDA r : r.key = Upper(ticker))
    ELSE IF Given(prefix)
    THEN SelectSeq(df, LAMBDA r : StartsWith(r.key, Upper(prefix)))
    ELSE IF prefixes # << >>
    THEN SelectSeq(df, LAMBDA r : DefaultMask(r.key, prefixes))
    ELSE df

SettlementSuffixes == {"24hs", "SPOT"}

\* str.contains(' - 24hs| - SPOT')
HasSuffix(key) ==
    \E i \in 1 .. Len(key) - 1 :
        key[i] = " - " /\ key[i + 1] \in SettlementSuffixes

\* str.replace(' - ' + settlement, ''): every occurrence, left to right
RECURSIVE Replace(_, _)
Replace(key, settlement) ==
    IF key = << >> THEN << >>
    ELSE IF Len(key) >= 2 /\ key[1] = " - " /\ key[2] = settlement
    THEN Replace(SubSeq(key, 3, Len(key)), settlement)
    ELSE << key[1] >> \o Replace(Tail(key), settlement)

\* .str.replace(' - 24hs', '').str.replace(' - SPOT', '')
Clean(key) == Replace(Replace(key, "24hs"), "SPOT")

\* GetStocks that compares the key with its settlement left on
GetStocksKeepSuffix(df, prefixes, prefix, ticker) ==
    GetOptions(SelectSeq(df, LAMBDA r : HasSuffix(r.key)), prefixes, prefix,
               ticker)

\* the rows get_stocks returns
GetStocks(df, prefixes, prefix, ticker) ==
    LET stocks == SelectSeq(df, LAMBDA r : HasSuffix(r.key))
    IN  IF Given(ticker)
        THEN SelectSeq(stocks, LAMBDA r : Clean(r.key) = Upper(ticker))
        ELSE IF Given(prefix)
        THEN SelectSeq(stocks,
                       LAMBDA r : StartsWith(Clean(r.key), Upper(prefix)))
        ELSE IF prefixes # << >>
        THEN SelectSeq(stocks, LAMBDA r : DefaultMask(Clean(r.key), prefixes))
        ELSE stocks

\* str.contains(ticker.upper()), regex=True as by default: the pattern is
\* searched as a regular expression, of which the model has the literal
\* characters and ".", any one character
Contains(key, pat) ==
    \E i \in 0 .. Len(key) - Len(pat) :
        \A j \in 1 .. Len(pat) : pat[j] = "." \/ key[i + j] = pat[j]

SecurityTypes ==
    {"acciones", "bonos", "cedears", "letras", "ons", "panel_general"}

\* the rows get_securities returns
GetSecurities(df, ticker, type) ==
    IF Given(ticker)
    THEN SelectSeq(df, LAMBDA r : Contains(r.key, Upper(ticker)))
    ELSE IF type \in SecurityTypes
    THEN SelectSeq(df, LAMBDA r : HasSuffix(r.key))
    ELSE df

QueryUnchanged ==
    UNCHANGED << conn_vars, option_prefixes, stock_prefixes, options,
                 everything, cauciones >>

get_options(prefix, ticker) ==
    /\ lock = "free"
    /\ result' = [op |-> "get_options", view |-> "copy", prefix |-> prefix,
                  ticker |-> ticker,
                  rows |-> GetOptions(options, option_prefixes, prefix, ticker)]
    /\ QueryUnchanged

\* GET /options/all: hb_service.get_options(prefix=None, ticker=None)
get_all_options ==
    /\ lock = "free"
    /\ result' = [op |-> "get_all_options", view |-> "copy",
                  rows |-> GetOptions(options, option_prefixes, None, None)]
    /\ QueryUnchanged

get_securities(ticker, type) ==
    /\ lock = "free"
    /\ result' = [op |-> "get_securities", view |-> "copy", ticker |-> ticker,
                  type |-> type,
                  rows |-> GetSecurities(everything, ticker, type)]
    /\ QueryUnchanged

get_stocks(prefix, ticker) ==
    /\ lock = "free"
    /\ result' = [op |-> "get_stocks", view |-> "copy", prefix |-> prefix,
                  ticker |-> ticker,
                  rows |-> GetStocks(everything, stock_prefixes, prefix, ticker)]
    /\ QueryUnchanged

\* GET /stocks/all: hb_service.get_stocks(prefix=None, ticker=None)
get_all_stocks ==
    /\ lock = "free"
    /\ result' = [op |-> "get_all_stocks", view |-> "copy",
                  rows |-> GetStocks(everything, stock_prefixes, None, None)]
    /\ QueryUnchanged

\* get_cauciones that hands out self.cauciones itself
get_cauciones_view ==
    /\ lock = "free"
    /\ result' = [op |-> "get_cauciones", view |-> "cauciones",
                  rows |-> cauciones]
    /\ QueryUnchanged

get_cauciones ==
    /\ lock = "free"
    /\ result' = [op |-> "get_cauciones", view |-> "copy", rows |-> cauciones]
    /\ QueryUnchanged

get_connection_status ==
    /\ lock = "free"
    /\ result' = [op |-> "get_connection_status", view |-> "copy",
                  connected |-> connected,
                  receiving_data |-> time_since_last_data < StaleThreshold,
                  connection_attempts |-> connection_attempts]
    /\ QueryUnchanged

\* ---- the queries' model: the callbacks, the queries and time --------------

LowerGA == << "g", "a" >>
Dot == << "." >>

\* the arguments a caller passes
QueryTickers == {None, << >>, GA, LowerGA, << "G" >>, << "y" >>}
QueryPrefixes == {None, << "G" >>, << "g" >>}
QueryTypes == {"None", "acciones", "otro"}

\* what the feed delivers: one row for a known key, a new symbol once, in
\* lower case, and twice in one batch (alone, and ahead of a row for a known
\* key)
GAQuote == [symbol |-> GA, bid |-> 100, change |-> NaN]

QueryOptionBatches ==
    {<< [symbol |-> AL, bid |-> 100, change |-> NaN] >>,
     << GAQuote >>,
     << [symbol |-> LowerGA, bid |-> 100, change |-> NaN] >>,
     << GAQuote, GAQuote >>,
     << GAQuote, GAQuote, [symbol |-> AL, bid |-> NaN, change |-> 100] >>}
QuerySecurityBatches ==
    {<< [symbol |-> << "G" >>, settlement |-> "24hs", bid |-> 100,
         change |-> NaN] >>}
QueryRepoBatches ==
    {<< [symbol |-> << "PESOS" >>, settlement |-> "D1", turnover |-> 100,
         last |-> NaN] >>}

QueryOptionPrefixConfigs == {<< >>, << << "G" >> >>, << << "g" >> >>}
QueryStockPrefixConfigs == {<< >>, << << "Y" >> >>}

\* the securities table as built from the ticker lists: a row per ticker and
\* settlement, and a row whose key carries no settlement
QueryInitStore(prefixes, stocks) ==
    /\ option_prefixes = prefixes
    /\ stock_prefixes = stocks
    /\ result = NoResult
    /\ options = << EmptyRow(AL, {"bid", "change"}) >>
    /\ everything = << EmptyRow(<< "G", " - ", "24hs" >>, {"bid", "change"}),
                       EmptyRow(<< "Y", " - ", "SPOT" >>, {"bid", "change"}),
                       EmptyRow(<< "G" >>, {"bid", "change"}) >>
    /\ cauciones = << EmptyRow("D1", {"turnover", "last"}) >>

QueryInit ==
    /\ Init
    /\ \E p \in QueryOptionPrefixConfigs, sp \in QueryStockPrefixConfigs :
          QueryInitStore(p, sp)

QueryOptionsFeed == \E q \in QueryOptionBatches : on_options(q)
QuerySecuritiesFeed == \E q \in QuerySecurityBatches : on_securities(q)
QueryReposFeed == \E q \in QueryRepoBatches : on_repos(q)

QueryOptions == \E p \in QueryPrefixes, t \in QueryTickers : get_options(p, t)
QueryStocks == \E p \in QueryPrefixes, t \in QueryTickers : get_stocks(p, t)
QuerySecurities ==
    \E t \in QueryTickers \cup {Dot}, ty \in QueryTypes : get_securities(t, ty)

Query ==
    \/ QueryOptions
    \/ get_all_options
    \/ QuerySecurities
    \/ QueryStocks
    \/ get_all_stocks
    \/ get_cauciones
    \/ get_connection_status

QueryNext ==
    \/ QueryOptionsFeed
    \/ QuerySecuritiesFeed
    \/ QueryReposFeed
    \/ Query
    \/ Tick

SpecQuery == QueryInit /\ [][QueryNext]_vars

\* ---- the batch requests for history ---------------------------------------
\* A request is followed symbol by symbol: `result` holds the symbols, the
\* position of the loop, what each single-symbol fetch did, and the mapping
\* `results` built so far; it is returned once the loop has passed the last
\* symbol.  A DataFrame is kept as "rows" or "empty".

HistoryOps == {"get_historical_data_batch", "get_intraday_history_batch"}

ReservedWords ==
    {"batch", "all", "options", "stocks", "securities", "historical",
     "intraday"}

HistorySymbols == {"AAA", "BBB", "ALL"}

\* symbol.lower()
Lower(symbol) ==
    CASE symbol = "AAA" -> "aaa"
      [] symbol = "BBB" -> "bbb"
      [] symbol = "ALL" -> "all"
      [] symbol = "Intraday" -> "intraday"
      [] OTHER -> symbol

\* what get_historical_data / get_intraday_history can do for one symbol:
\* raise, return an empty frame (the provider has no data), return rows
FetchOutcomes(op, symbol) ==
    IF op = "get_historical_data_batch" /\ Lower(symbol) \in ReservedWords
    THEN {"raise"}
    ELSE IF hb = "None" \/ ~connected THEN {"raise"}
    ELSE {"raise", "empty", "rows"}

\* results[symbol] = df
Put(results, symbol, df) ==
    [k \in DOMAIN results \cup {symbol} |->
        IF k = symbol THEN df ELSE results[k]]

\* Collect that records nothing for a symbol whose fetch raised
CollectSkipsFailure(results, symbol, outcome) ==
    IF outcome = "rows" THEN Put(results, symbol, "rows") ELSE results

\* the body of the loop: `if not df.empty: results[symbol] = df`, and
\* `results[symbol] = pd.DataFrame()` in the except clause
Collect(results, symbol, outcome) ==
    IF outcome = "raise" THEN Put(results, symbol, "empty")
    ELSE IF outcome = "rows" THEN Put(results, symbol, "rows")
    ELSE results

InBatch == result.op \in HistoryOps /\ result.next <= Len(result.symbols)

HistoryUnchanged ==
    UNCHANGED << conn_vars, option_prefixes, stock_prefixes, options,
                 everything, cauciones >>

\* results = {}
BatchBegin(op, symbols) ==
    /\ ~InBatch
    /\ result' = [op |-> op, view |-> "copy", symbols |-> symbols, next |-> 1,
                  fetched |-> << >>, results |-> << >>]
    /\ HistoryUnchanged

\* one turn of `for symbol in symbols`
BatchFetch ==
    /\ InBatch
    /\ LET symbol == result.symbols[result.next]
       IN  \E outcome \in FetchOutcomes(result.op, symbol) :
              result' = [result EXCEPT
                            !.next = @ + 1,
                            !.fetched = Append(@, outcome),
                            !.results = Collect(@, symbol, outcome)]
    /\ HistoryUnchanged

\* ---- the single-symbol fetches ----------------------------------------------
\* `result` holds the symbol, how the fetch ended (it raised, returned an
\* empty frame, returned rows), the error it raised and whether
\* self._hb.history was called.

FetchSymbols == {"AAA", "ALL", "batch", "Intraday"}

\* the connection check that looks at the handle alone
NoConnectionHandleOnly == hb = "None"

\* if not self._hb or not self._connected: raise
NoConnection == hb = "None" \/ ~connected

\* self._hb.history.get_daily_history / get_intraday_history is called: it
\* raises, has no data, or returns rows
Fetched ==
    {[outcome |-> o, called |-> TRUE,
      error |-> IF o = "raise" THEN "provider" ELSE "none"] :
        o \in {"raise", "empty", "rows"}}

\* an exception raised ahead of the provider call, re-raised to the caller
Refused(error) == {[outcome |-> "raise", called |-> FALSE, error |-> error]}

\* get_historical_data: the reserved words, then the connection, then the call
DailyFetch(symbol) ==
    IF Lower(symbol) \in ReservedWords THEN Refused("reserved word")
    ELSE IF NoConnection THEN Refused("no connection")
    ELSE Fetched

\* get_intraday_history: the connection, then the call
IntradayFetch(symbol) ==
    IF NoConnection THEN Refused("no connection") ELSE Fetched

get_historical_data(symbol) ==
    /\ ~InBatch
    /\ \E f \in DailyFetch(symbol) :
          result' = [op |-> "get_historical_data", view |-> "copy",
                     symbol |-> symbol, outcome |-> f.outcome,
                     called |-> f.called, error |-> f.error]
    /\ HistoryUnchanged

get_intraday_history(symbol) ==
    /\ ~InBatch
    /\ \E f \in IntradayFetch(symbol) :
          result' = [op |-> "get_intraday_history", view |-> "copy",
                     symbol |-> symbol, outcome |-> f.outcome,
                     called |-> f.called, error |-> f.error]
    /\ HistoryUnchanged

\* GET /historical/{symbol} (src/api.py): the connection status, read under
\* the lock, then the fetch; 503 without the fetch when not connected, 500
\* when the fetch raises
api_get_historical_data(symbol) ==
    /\ ~InBatch
    /\ lock = "free"
    /\ IF ~connected
       THEN result' = [op |-> "GET /historical", view |-> "copy",
                       symbol |-> symbol, status |-> 503, fetch |-> FALSE,
                       called |-> FALSE]
       ELSE \E f \in DailyFetch(symbol) :
               result' = [op |-> "GET /historical", view |-> "copy",
                          symbol |-> symbol,
                          status |-> IF f.outcome = "raise" THEN 500 ELSE 200,
                          fetch |-> TRUE, called |-> f.called]
    /\ HistoryUnchanged

HistoricalData == \E symbol \in FetchSymbols : get_historical_data(symbol)
HistoricalEndpoint ==
    \E symbol \in FetchSymbols : api_get_historical_data(symbol)
IntradayHistory == \E symbol \in FetchSymbols : get_intraday_history(symbol)

get_historical_data_batch ==
    \E symbols \in SeqsUpTo(HistorySymbols, MaxSymbols) :
        BatchBegin("get_historical_data_batch", symbols)

get_intraday_history_batch ==
    \E symbols \in SeqsUpTo(HistorySymbols, MaxSymbols) :
        BatchBegin("get_intraday_history_batch", symbols)

HistoryNext ==
    \/ start
    \/ HbThreadStep
    \/ HbThreadEnd
    \/ on_error
    \/ force_reconnect
    \/ get_historical_data_batch
    \/ get_intraday_history_batch
    \/ BatchFetch
    \/ HistoricalData
    \/ IntradayHistory
    \/ HistoricalEndpoint

HistoryInit == Init /\ InitStore(<< >>)

SpecHistory == HistoryInit /\ [][HistoryNext]_vars

\* ---- the connection model ------------------------------------------------

FeedOptionsStep == AnyOpen /\ \E q \in FeedOptions : on_options(q)
FeedSecuritiesStep == AnyOpen /\ \E q \in FeedSecurities : on_securities(q)
FeedReposStep == AnyOpen /\ \E q \in FeedRepos : on_repos(q)

Next ==
    \/ start
    \/ stop
    \/ force_reconnect
    \/ HbThreadStep
    \/ HbThreadEnd
    \/ health_monitor
    \/ on_error
    \/ FeedOptionsStep
    \/ FeedSecuritiesStep
    \/ FeedReposStep
    \/ Tick

\* no option prefix is configured
SpecInit == Init /\ InitStore(<< >>)

Spec == SpecInit /\ [][Next]_vars

\* ---- the same program, with the history of forced reconnects kept --------

ForcedInit ==
    Constructed /\ forced = "no" /\ issued = Untracked /\ InitStore(<< >>)

ForcedSpec == ForcedInit /\ [][Next]_vars

\* ---- the same program, with the log of each connect call's external calls -

ConnectInit ==
    /\ Constructed
    /\ forced = "untracked"
    /\ issued = [t \in Threads |-> << >>]
    /\ InitStore(<< >>)

\* start() and stop(), the two threads that make connect calls, and time
ConnectNext ==
    \/ start
    \/ stop
    \/ HbThreadStep
    \/ HbThreadEnd
    \/ health_monitor
    \/ Tick

ConnectSpec == ConnectInit /\ [][ConnectNext]_vars

\* ---- the record store alone: the callbacks on every bounded batch --------

StoreOptions == \E q \in OptionBatches : on_options(q)
StoreSecurities == \E q \in SecurityBatches : on_securities(q)
StoreRepos == \E q \in RepoBatches : on_repos(q)

StoreNext == StoreOptions \/ StoreSecurities \/ StoreRepos

StoreInit == Init /\ \E p \in PrefixConfigs : InitStore(p)

SpecStore == StoreInit /\ [][StoreNext]_vars

\* ---- the connection model once the provider has recovered ---------------
\* stop() is never called; from Recover on no external call fails and no
\* error is delivered.  The threads are scheduled and time passes.

Recover ==
    /\ ~healthy
    /\ healthy' = TRUE
    /\ UNCHANGED << hb, connected, time_since_last_data, connection_attempts,
                    should_stop, lock, pc, hb_local, attempts_read, slept,
                    stale_call, orphaned, error_seen, forced, issued, starts, pc_stop,
                    store_vars >>

LiveMonitor ==
    \/ MonLoop
    \/ MonStale
    \/ MonNotConnected
    \/ attempt_reconnection
    \/ MonCooldown
    \/ MonCas
    \/ MonReturn
    \/ MonRetryWake
    \/ MonWake

LiveHbThread == HbThreadStep \/ HbThreadEnd

LiveNext ==
    \/ start
    \/ force_reconnect
    \/ LiveHbThread
    \/ LiveMonitor
    \/ on_error
    \/ FeedSecuritiesStep
    \/ Tick
    \/ Recover

LiveSpec ==
    /\ SpecInit
    /\ [][LiveNext]_vars
    /\ WF_vars(LiveMonitor)
    /\ WF_vars(LiveHbThread)
    /\ WF_vars(Tick)

\* ---- the connection model with its threads scheduled ----------------------
\* Every thread that can run does so eventually: the monitor (its external
\* calls return, and it gets the lock when the lock is released again and
\* again), hb-thread, and the caller of stop() once it has set the flag.
\* Time passes.  The feed delivers empty batches, which refresh
\* _last_data_received and nothing else.

StopReturns == StopLock \/ StopDisconnect

StopNext ==
    \/ start
    \/ stop
    \/ force_reconnect
    \/ LiveHbThread
    \/ health_monitor
    \/ on_error
    \/ FeedSecuritiesStep
    \/ Tick

StopSpec ==
    /\ SpecInit
    /\ [][StopNext]_vars
    /\ SF_vars(health_monitor)
    /\ WF_vars(LiveHbThread)
    /\ WF_vars(StopReturns)
    /\ WF_vars(Tick)

\* ==== the claims ==========================================================

Monitor == "hb-health"

InitialOptions == << EmptyRow(AL, {"bid", "change"}) >>

\* C1: at no time are two executions of connect-and-subscribe in progress at
\* once (the thread launched by start() and the health monitor's tick).
C1_NoConcurrentConnect ==
    ~(CasRunning("hb-thread") /\ CasRunning("hb-health"))

\* C2: the step that ends a successful connect-and-subscribe takes the free
\* lock and at once sets connected, zeroes connection_attempts, refreshes
\* _last_data_received and stores the new, open handle as self._hb; the call
\* then returns True, and it returns True in no other way.
C2_SuccessPublishes ==
    [][\A t \in Threads :
        /\ (pc[t] = "cas_publish" /\ pc'[t] # "cas_publish") =>
              /\ pc'[t] = "cas_true"
              /\ lock = "free" /\ lock' = "free"
              /\ connected' = TRUE
              /\ connection_attempts' = 0
              /\ time_since_last_data' = 0
              /\ hb_local[t] = "open" /\ hb' = "open"
        /\ (pc'[t] = "cas_true" /\ pc[t] # "cas_true") => pc[t] = "cas_publish"
      ]_vars

C2_Witness ==
    \E t \in Threads :
        /\ pc[t] = "cas_true"
        /\ connected /\ connection_attempts = 0 /\ hb = "open"
        /\ time_since_last_data = 0

\* C3: a failing login, channel open or subscription leads to the except
\* clause and nowhere else; the clause sets connected=false under the lock,
\* stores the counter it loaded under the lock plus one, and the call returns
\* False; the three tables and _last_data_received are untouched.
C3_FailureCounted ==
    [][\A t \in Threads :
        /\ (pc[t] \in {"cas_login", "cas_connect", "cas_subscribe"}
              /\ pc'[t] # pc[t]) =>
              pc'[t] \in {"cas_connect", "cas_subscribe", "cas_publish",
                          "cas_except"}
        /\ (pc[t] = "cas_except" /\ pc'[t] # "cas_except") =>
              /\ pc'[t] = "cas_incr"
              /\ lock = "free" /\ lock' = t
              /\ connected' = FALSE
              /\ attempts_read'[t] = connection_attempts
              /\ UNCHANGED << connection_attempts, time_since_last_data,
                              options, everything, cauciones >>
        /\ (pc[t] = "cas_incr" /\ pc'[t] # "cas_incr") =>
              /\ pc'[t] = "cas_false"
              /\ lock' = "free"
              /\ connected = FALSE /\ connected' = FALSE
              /\ connection_attempts' = attempts_read[t] + 1
              /\ UNCHANGED << time_since_last_data, options, everything,
                              cauciones >>
        /\ (pc'[t] = "cas_false" /\ pc[t] # "cas_false") => pc[t] = "cas_incr"
      ]_vars

C3_Witness ==
    \E t \in Threads :
        /\ pc[t] = "cas_false"
        /\ ~connected /\ connection_attempts > 0
        /\ options # InitialOptions

C5_CooldownThenReset ==
    [][/\ (pc[Monitor] = "policy"
              /\ connection_attempts >= max_reconnect_attempts
              /\ pc'[Monitor] # "policy") =>
              /\ pc'[Monitor] = "cooldown"
              /\ slept' = 0
              /\ connection_attempts' = connection_attempts
       /\ (pc[Monitor] = "cooldown" /\ pc'[Monitor] # "cooldown") =>
              /\ slept >= 2 * reconnect_interval
              /\ connection_attempts' = 0
              /\ pc'[Monitor] = "sleep"
       /\ (pc[Monitor] = "cooldown" /\ pc'[Monitor] = "cooldown"
              /\ connection_attempts' # connection_attempts) =>
              (force_reconnect \/ HbThreadStep)
      ]_vars

C5_Witness ==
    /\ pc[Monitor] = "cooldown"
    /\ slept >= 2 * reconnect_interval
    /\ connection_attempts >= max_reconnect_attempts
    /\ ~connected

\* C6: once the provider has recovered and the monitor runs, the service
\* eventually is connected.
C6_EventuallyConnected ==
    (healthy /\ pc[Monitor] # "dead") ~> connected

C6_Witness ==
    /\ healthy
    /\ ~connected
    /\ connection_attempts >= max_reconnect_attempts
    /\ pc[Monitor] = "cooldown"

\* C7: on_error sets connected=false and changes nothing else: no thread
\* moves (no connect call), connection_attempts, the handle, the timestamp
\* and the three tables stay as they are.
C7_OnErrorOnlyDisconnects ==
    [][on_error =>
          /\ connected' = FALSE
          /\ UNCHANGED << hb, connection_attempts, time_since_last_data, pc,
                          hb_local, lock, should_stop, options, everything,
                          cauciones >>
      ]_vars

\* a state in which the connection can report an error, and the service has
\* something to lose
C7_Witness ==
    /\ AnyOpen /\ ~healthy /\ lock = "free"
    /\ connected /\ hb = "open"
    /\ options # InitialOptions
    /\ \A t \in Threads : ~CasRunning(t)

\* C8: in each of the three tables no two rows share a key.
C8_KeyUniqueness ==
    /\ ~HasDuplicates(options)
    /\ ~HasDuplicates(everything)
    /\ ~HasDuplicates(cauciones)

\* the rows of a table that carry key k
Count(df, k) == Cardinality({i \in 1 .. Len(df) : df[i].key = k})

\* every key of `this` is in the table afterwards, no key gains a row
InsertsAbsent(df, this, after) ==
    /\ \A j \in 1 .. Len(this) : this[j].key \in Keys(after)
    /\ \A k \in Keys(df) : Count(after, k) = Count(df, k)

Carried(this, k, c) ==
    {this[j].val[c] : j \in {j \in 1 .. Len(this) :
                                this[j].key = k /\ this[j].val[c] # NaN}}

\* the rows of df are still there, in place; a cell the batch carries a
\* value for holds a carried value afterwards, every other cell is as it was
FieldsOverlaid(df, this, after) ==
    /\ Len(after) >= Len(df)
    /\ \A i \in 1 .. Len(df) :
          /\ after[i].key = df[i].key
          /\ \A c \in DOMAIN df[i].val :
                LET carried == Carried(this, df[i].key, c)
                IN  IF carried # {} THEN after[i].val[c] \in carried
                    ELSE after[i].val[c] = df[i].val[c]

\* C10: a merge-update overwrites, in an existing row, exactly the fields the
\* batch carries for that row's key, and leaves the row's other fields and
\* the other rows as they were (for options, the batch rows are those the
\* prefix filter lets through).
C10_FieldPreservation ==
    /\ \A q \in OptionBatches :
          FieldsOverlaid(options, OptionsFilter(OptionsTransform(q)),
                         OptionsMerge(options, q))
    /\ \A q \in SecurityBatches :
          FieldsOverlaid(everything, SecuritiesTransform(q),
                         SecuritiesMerge(everything, q))
    /\ \A q \in RepoBatches :
          FieldsOverlaid(cauciones, ReposTransform(q),
                         ReposMerge(cauciones, q))

\* C11: in each table, delivering a batch a second time right after the
\* first changes nothing: the table after B, B equals the table after B.
C11_MergeIdempotent ==
    /\ \A q \in OptionBatches :
          OptionsMerge(OptionsMerge(options, q), q) = OptionsMerge(options, q)
    /\ \A q \in SecurityBatches :
          SecuritiesMerge(SecuritiesMerge(everything, q), q)
              = SecuritiesMerge(everything, q)
    /\ \A q \in RepoBatches :
          ReposMerge(ReposMerge(cauciones, q), q) = ReposMerge(cauciones, q)

\* batches have changed all three tables, and a repeated new key has left
\* two rows in the options table
C11_Witness ==
    /\ HasDuplicates(options)
    /\ \E i \in 1 .. Len(everything) : everything[i].val["change"] = 1
    /\ \E i \in 1 .. Len(cauciones) : cauciones[i].val["last"] = 1

\* this step returns a result of the query `op`
Returns(op) == result' # result /\ result'.op = op

\* the batch is applied as a whole: its keys are in the table (where the
\* table takes new keys) and every cell it carries a value for holds it
WhollyApplied(df, this, after, inserts) ==
    /\ inserts => \A j \in 1 .. Len(this) : this[j].key \in Keys(after)
    /\ FieldsOverlaid(df, this, after)

\* C12: a query returns the table as the lock holder left it, and every
\* callback leaves its table either as it was or with the whole batch
\* applied, also when its processing ends in the except clause; so no query
\* sees new rows of a batch without that batch's updates of existing rows.
C12_NoPartialBatch ==
    [][/\ \A q \in QueryOptionBatches :
             on_options(q) =>
                \/ options' = options
                \/ WhollyApplied(options, OptionsFilter(OptionsTransform(q)),
                                 options', TRUE)
       /\ \A q \in QuerySecurityBatches :
             on_securities(q) =>
                \/ everything' = everything
                \/ WhollyApplied(everything, SecuritiesTransform(q),
                                 everything', FALSE)
       /\ \A q \in QueryRepoBatches :
             on_repos(q) =>
                \/ cauciones' = cauciones
                \/ WhollyApplied(cauciones, ReposTransform(q), cauciones',
                                 FALSE)
       /\ Returns("get_cauciones") => result'.rows = cauciones
      ]_vars

\* C13: a step that returns a result changes nothing else (neither the
\* tables nor the connection state nor the configuration), and a step that
\* changes anything else (a callback, time) leaves the result that was
\* returned as it is.
C13_QueriesReadOnly ==
    [][result' # result =>
          UNCHANGED << conn_vars, option_prefixes, stock_prefixes, options,
                       everything, cauciones >>]_vars

\* the caller holds a result of get_cauciones that the table has moved on from
C13_Witness ==
    /\ result.op = "get_cauciones"
    /\ result.rows # cauciones
    /\ time_since_last_data = 0

\* C14: get_options with a non-empty ticker returns at most one row, only a
\* row whose key is the ticker (letter case aside), and the same rows
\* whatever the prefix argument and the configured prefixes are.
C14_TickerSingleRow ==
    [][(Returns("get_options") /\ Given(result'.ticker)) =>
          /\ Len(result'.rows) <= 1
          /\ \A i \in 1 .. Len(result'.rows) :
                Upper(result'.rows[i].key) = Upper(result'.ticker)
          /\ result'.rows = GetOptions(options, << >>, None, result'.ticker)
      ]_vars

\* C15: get_options() without arguments returns the whole table when no
\* prefix is configured; otherwise every row whose key starts with a
\* configured prefix, and no row whose key starts with none of them even with
\* letter case ignored.
C15_DefaultPrefixes ==
    [][(Returns("get_options") /\ result'.prefix = None
            /\ result'.ticker = None) =>
          IF option_prefixes = << >> THEN result'.rows = options
          ELSE /\ \A i \in 1 .. Len(options) :
                     PrefixMask(options[i].key) =>
                        \E j \in 1 .. Len(result'.rows) :
                           result'.rows[j] = options[i]
               /\ \A j \in 1 .. Len(result'.rows) :
                     \E i \in 1 .. Len(option_prefixes) :
                        StartsWith(Upper(result'.rows[j].key),
                                   Upper(option_prefixes[i]))
      ]_vars

\* C16: get_options matches with letter case ignored on both sides: with a
\* ticker the rows whose key equals it, with a prefix (and no ticker) the rows
\* whose key starts with it, both compared in upper case.
C16_CaseInsensitive ==
    [][Returns("get_options") =>
          /\ Given(result'.ticker) =>
                result'.rows =
                   SelectSeq(options,
                             LAMBDA r : Upper(r.key) = Upper(result'.ticker))
          /\ (~Given(result'.ticker) /\ Given(result'.prefix)) =>
                result'.rows =
                   SelectSeq(options,
                             LAMBDA r : StartsWith(Upper(r.key),
                                                   Upper(result'.prefix)))
      ]_vars

\* C17: /options/all returns every row of the options table and /stocks/all
\* every row of the securities table that carries a settlement, whatever
\* prefixes are configured.
C17_AllIgnoresPrefixes ==
    [][/\ Returns("get_all_options") => result'.rows = options
       /\ Returns("get_all_stocks") =>
             result'.rows = SelectSeq(everything, LAMBDA r : HasSuffix(r.key))
      ]_vars

\* the key ends in " - 24hs" or " - SPOT"
EndsWithSettlement(key) ==
    /\ Len(key) >= 2
    /\ key[Len(key) - 1] = " - "
    /\ key[Len(key)] \in {"24hs", "SPOT"}

\* C18: get_stocks with a ticker K returns exactly the rows of the
\* securities table whose key ends in a settlement suffix and, with that
\* suffix taken off, equals K in upper case.
C18_StockSuffixStripped ==
    [][(Returns("get_stocks") /\ Given(result'.ticker)) =>
          result'.rows =
             SelectSeq(everything,
                       LAMBDA r : /\ EndsWithSettlement(r.key)
                                  /\ SubSeq(r.key, 1, Len(r.key) - 2)
                                        = Upper(result'.ticker))
      ]_vars

\* "G - 24hs" has been returned for the ticker "G", and not the row "G"
C18_Witness ==
    /\ result.op = "get_stocks"
    /\ result.ticker = << "G" >>
    /\ Len(result.rows) = 1
    /\ result.rows[1].key = << "G", " - ", "24hs" >>
    /\ result.rows[1].val["bid"] = 100

\* this step is one turn of a batch request's loop
Fetches ==
    /\ result.op \in HistoryOps
    /\ result'.op = result.op
    /\ result'.symbols = result.symbols
    /\ result'.next = result.next + 1

\* C19: when the fetch of one symbol of a batch request fails, the symbol
\* gets an empty entry, the entries of the other symbols stay as they are,
\* and the loop goes on with the next symbol: one fetch per symbol, in order,
\* until the last, whatever failed.
C19_BatchIsolation ==
    [][Fetches =>
          LET symbol == result.symbols[result.next]
          IN  /\ Len(result'.fetched) = result.next
              /\ SubSeq(result'.fetched, 1, result.next - 1) = result.fetched
              /\ result'.fetched[result.next] = "raise" =>
                    /\ symbol \in DOMAIN result'.results
                    /\ result'.results[symbol] = "empty"
                    /\ \A k \in DOMAIN result.results \ {symbol} :
                          /\ k \in DOMAIN result'.results
                          /\ result'.results[k] = result.results[k]
                    /\ result.next < Len(result.symbols) => ENABLED BatchFetch
      ]_vars

\* the request for AAA, BBB has returned AAA: empty, BBB: rows
C19_Witness ==
    /\ result.op = "get_historical_data_batch"
    /\ result.symbols = << "AAA", "BBB" >>
    /\ result.fetched = << "raise", "rows" >>
    /\ ~InBatch
    /\ result.results = ("AAA" :> "empty" @@ "BBB" :> "rows")

\* C20: the mapping a batch request returns has an entry for every requested
\* symbol and for no other: rows or an empty result.
C20_EveryRequestedSymbol ==
    (result.op \in HistoryOps /\ ~InBatch) =>
        /\ DOMAIN result.results =
              {result.symbols[i] : i \in 1 .. Len(result.symbols)}
        /\ \A k \in DOMAIN result.results :
              result.results[k] \in {"rows", "empty"}

\* this step returns from a single-symbol fetch, daily or intraday
ReturnsFetch ==
    /\ result' # result
    /\ result'.op \in {"get_historical_data", "get_intraday_history"}

\* C21: a single-symbol fetch, daily or intraday, of a reserved word (letter
\* case aside) raises to the caller without a call to the provider, whatever
\* the connection state is.
C21_ReservedRejected ==
    [][(ReturnsFetch /\ Lower(result'.symbol) \in ReservedWords) =>
          /\ result'.outcome = "raise"
          /\ ~result'.called
      ]_vars

\* C22: once the stop flag is set, the monitor's thread ends unless start()
\* clears the flag again; the loop's test is the one place the flag is read:
\* a test that finds it set leaves the loop, and a monitor that has left the
\* loop does nothing but end (no connect call, no change of state).
C22_MonitorStops ==
    /\ should_stop ~> (pc[Monitor] = "dead" \/ ~should_stop)
    /\ [][
          /\ (pc[Monitor] = "loop" /\ should_stop /\ pc'[Monitor] # "loop") =>
                pc'[Monitor] = "exit"
          /\ (pc[Monitor] = "exit" /\ pc'[Monitor] # "exit") =>
                /\ pc'[Monitor] = "dead"
                /\ UNCHANGED << hb, connected, connection_attempts,
                                time_since_last_data, hb_local, lock, orphaned,
                                store_vars >>
       ]_vars

\* stop() has returned and the monitor has ended after a connect call of its
\* own
C22_Witness ==
    /\ should_stop /\ pc_stop = "idle"
    /\ pc[Monitor] = "dead"
    /\ hb = "closed"
    /\ connection_attempts > 0

\* the raw `change` values the quotes carry for key k (this[j] is the row the
\* transforms make of quotes[j])
RawChanges(quotes, this, k) ==
    {quotes[j].change :
        j \in {j \in 1 .. Len(quotes) :
                  this[j].key = k /\ quotes[j].change # NaN}}

\* every `change` cell of the table after the callback is the cell as it was,
\* or the cell of a new row without a value, or a raw value of the batch for
\* that key over 100 (and not the raw value); and a batch that carries each
\* key once leaves its value over 100 in every row of that key among `keys`
ChangeScaled(df, quotes, this, keys, after) ==
    /\ \A i \in 1 .. Len(after) :
          LET c == after[i].val["change"]
          IN  \/ i <= Len(df) /\ c = df[i].val["change"]
              \/ i > Len(df) /\ c = NaN
              \/ /\ c # NaN
                 /\ after[i].key \in keys
                 /\ \E v \in RawChanges(quotes, this, after[i].key) :
                       c * 100 = v /\ c # v
    /\ ~HasDuplicates(this) =>
          \A j \in 1 .. Len(quotes), i \in 1 .. Len(after) :
             (quotes[j].change # NaN /\ this[j].key \in keys
                 /\ after[i].key = this[j].key) =>
                after[i].val["change"] * 100 = quotes[j].change

\* C23: whatever the batch, the `change` a callback stores for an options or
\* securities row is the inbound value over 100, never the inbound value
\* itself, in a row it inserts and in a row it updates; every other `change`
\* cell stays as it was.
C23_ChangeScaled ==
    /\ \A q \in OptionBatches :
          ChangeScaled(options, q, OptionsTransform(q),
                       Keys(OptionsFilter(OptionsTransform(q))),
                       OptionsMerge(options, q))
    /\ \A q \in SecurityBatches :
          ChangeScaled(everything, q, SecuritiesTransform(q),
                       Keys(SecuritiesTransform(q)),
                       SecuritiesMerge(everything, q))

\* a new options row has been inserted with its change, the change of an
\* existing options row and of a securities row has been updated
C23_Witness ==
    /\ \E i \in 1 .. Len(options) :
          options[i].key = GA /\ options[i].val["change"] = 1
    /\ \E i \in 1 .. Len(options) :
          options[i].key = AL /\ options[i].val["change"] = 2
    /\ \E i \in 1 .. Len(everything) : everything[i].val["change"] = 2

\* the thread is inside a call to the external connection made by
\* _connect_and_subscribe: disconnect of the old handle, login, connect,
\* the subscriptions
CasExternalCall(t) ==
    pc[t] \in {"cas_teardown", "cas_login", "cas_connect", "cas_subscribe"}

\* C24: while a thread is inside a call to the external connection it does
\* not hold the lock: neither a thread in _connect_and_subscribe nor the
\* caller of stop() during disconnect().
C24_NoLockAcrossExternalCall ==
    /\ \A t \in Threads : CasExternalCall(t) => lock # t
    /\ pc_stop = "disconnect" => lock # "stop"

\* this step is taken by the holder of the lock, or by one who takes the free
\* lock for it
UnderLock ==
    \/ lock = "free"
    \/ \E t \in Threads : lock = t /\ pc'[t] # pc[t]
    \/ lock = "stop" /\ pc_stop' # pc_stop

\* C25: the monitor reads _last_data_received, _connected and
\* _connection_attempts, and every step writes _connected,
\* _connection_attempts or the handle, only with the lock: no such step is
\* taken while another thread holds it, so a reset of the counter cannot fall
\* between the load and the store of an increment.
C25_StateUnderLock ==
    [][/\ (MonStale \/ MonNotConnected \/ attempt_reconnection) => UnderLock
       /\ (connected' # connected \/ hb' # hb
              \/ connection_attempts' # connection_attempts) => UnderLock
      ]_vars

\* C26: the counter of failed attempts never exceeds the retry budget.
C26_AttemptsWithinBudget == connection_attempts <= max_reconnect_attempts

\* C27: while no call of _connect_and_subscribe is running, no connection
\* that was opened and not disconnected is left without a reference: an
\* open connection is the one stored in self._hb.
C27_NoOrphanedConnection ==
    (\A t \in Threads : ~CasRunning(t)) => ~orphaned

\* stop() has set the flag and returned, and start() has not cleared the flag
Stopped == should_stop /\ pc_stop = "idle"

\* C28: once stop() has returned and until start() is called again, no step
\* sets connected to true and no step opens a connection.
C28_StoppedStaysDown ==
    [][Stopped =>
          /\ connected' => connected
          /\ \A t \in Threads : hb_local'[t] = "open" => hb_local[t] = "open"
      ]_vars

\* this step is the publishing step of thread t's connect call
Publishes(t) == pc[t] = "cas_publish" /\ pc'[t] = "cas_true"

\* C29: connected becomes true only by the publishing step of a connect
\* call, and never by a call that was already running, its own connection
\* open, when on_error was delivered.
C29_ErrorNotMasked ==
    [][/\ (connected' /\ ~connected) => \E t \in Threads : Publishes(t)
       /\ \A t \in Threads : Publishes(t) => ~error_seen[t]
      ]_vars

\* the monitor leaves position `from`
MonLeaves(from) == pc[Monitor] = from /\ pc'[Monitor] # from

\* C30: a tick invokes the reconnection policy exactly when it reads a
\* staleness above the threshold or, failing that, connected = false; a tick
\* that reads neither goes to its sleep and changes nothing; the policy is
\* entered only from these two tests and a connect call is made only by the
\* policy, each once between two tests of the loop.
C30_TickInvokesPolicy ==
    [][/\ MonLeaves("stale") =>
             /\ pc'[Monitor] = IF time_since_last_data > StaleThreshold
                               THEN "policy" ELSE "not_connected"
             /\ UNCHANGED << hb, connected, connection_attempts,
                             time_since_last_data, should_stop, lock, hb_local,
                             orphaned, store_vars >>
       /\ MonLeaves("not_connected") =>
             /\ pc'[Monitor] = IF ~connected THEN "policy" ELSE "sleep"
             /\ UNCHANGED << hb, connected, connection_attempts,
                             time_since_last_data, should_stop, lock, hb_local,
                             orphaned, store_vars >>
       /\ (pc'[Monitor] = "policy" /\ pc[Monitor] # "policy") =>
             pc[Monitor] \in {"stale", "not_connected"}
       /\ (pc'[Monitor] = "cas_teardown" /\ pc[Monitor] # "cas_teardown") =>
             pc[Monitor] = "policy"
       /\ (pc'[Monitor] = "not_connected" /\ pc[Monitor] # "not_connected") =>
             pc[Monitor] = "stale"
       /\ (pc'[Monitor] = "stale" /\ pc[Monitor] # "stale") =>
             pc[Monitor] = "loop"
       /\ (pc'[Monitor] = "loop" /\ pc[Monitor] # "loop") =>
             pc[Monitor] \in {"sleep", "dead"}
      ]_vars

\* a tick has read fresh data and is about to read connected = true
C30_Witness ==
    /\ pc[Monitor] = "not_connected"
    /\ connected
    /\ time_since_last_data = StaleThreshold
    /\ options # InitialOptions

\* C31: start() launches a monitor only when none is alive, and leaves a
\* monitor that is alive where it is: a monitor's loop is begun only by a
\* start() that finds the thread dead, so no second loop runs beside it.
C31_SingleMonitor ==
    [][/\ start =>
             pc'[Monitor] = IF pc[Monitor] = "dead" THEN "loop" ELSE pc[Monitor]
       /\ (pc[Monitor] = "dead" /\ pc'[Monitor] # "dead") => start
      ]_vars

\* start() has been called again while the monitor sleeps in its cooldown
C31_Witness ==
    /\ starts = MaxStarts
    /\ ~should_stop
    /\ pc[Monitor] = "cooldown"
    /\ pc["hb-thread"] = "cas_teardown"

\* C32: every delivery of a callback, data or error, with rows or without,
\* leaves _last_data_received at the time of the delivery.
C32_CallbacksRefresh ==
    [][(FeedOptionsStep \/ FeedSecuritiesStep \/ FeedReposStep \/ on_error) =>
          time_since_last_data' = 0
      ]_vars

\* C33: a callback whose processing of the batch ends in an internal error
\* leaves _last_data_received as it was.
C33_FailedBatchNoRefresh ==
    [][/\ \A q \in QueryOptionBatches :
             (on_options(q) /\ OptionsRaises(options, q)) =>
                UNCHANGED time_since_last_data
       /\ \A q \in QuerySecurityBatches :
             (on_securities(q)
                 /\ UpdateRaises(everything, SecuritiesTransform(q))) =>
                UNCHANGED time_since_last_data
       /\ \A q \in QueryRepoBatches :
             (on_repos(q) /\ UpdateRaises(cauciones, ReposTransform(q))) =>
                UNCHANGED time_since_last_data
      ]_vars

\* C34: while a forced reconnect is pending (POST /reconnect has been served
\* and no connect call has begun since), the tick that reads connected goes
\* to the policy and the policy makes a connect call; and no connect call
\* that had begun before the request publishes connected = true over it.
C34_ForcedReconnectHonoured ==
    [][/\ (forced = "pending" /\ MonLeaves("not_connected")) =>
              pc'[Monitor] = "policy"
       /\ (forced = "pending" /\ MonLeaves("policy")) =>
              pc'[Monitor] = "cas_teardown"
       /\ \A t \in Threads : Publishes(t) => forced # "pending"
      ]_vars

\* the rows of a batch whose symbol passes the prefix mask
Matching(quotes) == SelectSeq(quotes, LAMBDA r : PrefixMask(r.symbol))

\* C35: with a non-empty list of option prefixes, _on_options inserts no key
\* that fails the prefix mask and leaves every existing row with such a key
\* as it was, the batch's rows with such keys have no effect at all, and every
\* key the table has gained since construction passes the mask.
C35_PrefixFilter ==
    option_prefixes # << >> =>
       /\ \A k \in Keys(options) \ Keys(InitialOptions) : PrefixMask(k)
       /\ \A q \in OptionBatches :
             LET after == OptionsMerge(options, q)
             IN  /\ \A k \in Keys(after) \ Keys(options) : PrefixMask(k)
                 /\ Len(after) >= Len(options)
                 /\ \A i \in 1 .. Len(options) :
                        /\ after[i].key = options[i].key
                        /\ ~PrefixMask(options[i].key) => after[i] = options[i]
                 /\ after = OptionsMerge(options, Matching(q))
                 /\ Matching(q) = << >> => after = options

\* the prefix G is configured; GA has been inserted and quoted while the row
\* of AL, which batches also quote, is as it was built
C35_Witness ==
    /\ option_prefixes = << << "G" >> >>
    /\ Len(options) = 2
    /\ options[1] = InitialOptions[1]
    /\ options[2].key = GA
    /\ options[2].val.bid = 100

\* the external calls of a connect call after the teardown, in their order
CallOrder == << "login", "connect" >> \o Subscriptions

\* the log without the teardown of the prior handle
AfterTeardown(log) ==
    IF log # << >> /\ log[1].call = "disconnect" THEN Tail(log) ELSE log

\* the calls of the log are the first calls of CallOrder, in that order
InCallOrder(log) ==
    /\ Len(log) <= Len(CallOrder)
    /\ \A i \in 1 .. Len(log) : log[i].call = CallOrder[i]

\* every call of the log but the last has returned
NoneAfterFailure(log) == \A i \in 1 .. Len(log) - 1 : log[i].ok

\* where the connect call stands, by what it has issued
LogAt(t, log) ==
    /\ pc[t] = "cas_login" => log = << >>
    /\ pc[t] = "cas_connect" => Len(log) = 1 /\ log[1].ok
    /\ pc[t] = "cas_subscribe" => Len(log) = 2 /\ log[2].ok
    /\ pc[t] = "cas_publish" => Len(log) = Len(CallOrder) /\ log[Len(log)].ok
    /\ pc[t] = "cas_except" => log # << >> /\ ~log[Len(log)].ok

\* the teardown is issued, first, exactly when a handle is stored
TeardownFirst ==
    \A t \in Threads :
       (pc[t] = "cas_teardown" /\ pc'[t] # "cas_teardown") =>
          issued'[t] = IF hb = "None" THEN << >>
                       ELSE << Call("disconnect", issued'[t][1].ok) >>

\* C36 as stated: the teardown counts among the steps whose failure ends the
\* call.
C36_NoCallAfterAnyFailure ==
    /\ [](\A t \in Threads :
             /\ InCallOrder(AfterTeardown(issued[t]))
             /\ NoneAfterFailure(issued[t])
             /\ LogAt(t, AfterTeardown(issued[t])))
    /\ [][TeardownFirst]_vars

\* C36: a connect call issues the teardown of the stored handle, if there is
\* one, and then login, the channel's open, the subscriptions in their fixed
\* order; once login, the open or a subscription has raised it issues no
\* further call, while a teardown that raises does not end it.
C36_CallOrder ==
    /\ [](\A t \in Threads :
             /\ InCallOrder(AfterTeardown(issued[t]))
             /\ NoneAfterFailure(AfterTeardown(issued[t]))
             /\ LogAt(t, AfterTeardown(issued[t])))
    /\ [][TeardownFirst]_vars

\* the monitor's connect call has torn the old handle down, with an error,
\* logged in, opened the channel, and its third subscription has raised
C36_Witness ==
    /\ pc[Monitor] = "cas_except"
    /\ Len(issued[Monitor]) = 6
    /\ issued[Monitor][1] = Call("disconnect", FALSE)
    /\ issued[Monitor][6] = Call(Subscriptions[3], FALSE)

\* the pattern occurs in the key as it is written
Substring(key, pat) ==
    \E i \in 0 .. Len(key) - Len(pat) : SubSeq(key, i + 1, i + Len(pat)) = pat

\* C37: get_securities returns, with a ticker, exactly the rows whose key has
\* the uppercased ticker as a substring, whatever the type; without one and
\* with a recognized type, exactly the rows whose key has " - 24hs" or
\* " - SPOT"; otherwise the whole table.
C37_OneFilter ==
    [][Returns("get_securities") =>
          result'.rows =
             IF Given(result'.ticker)
             THEN SelectSeq(everything,
                            LAMBDA r : Substring(r.key, Upper(result'.ticker)))
             ELSE IF result'.type \in SecurityTypes
             THEN SelectSeq(everything,
                            LAMBDA r : \E s \in SettlementSuffixes :
                                          Substring(r.key, << " - ", s >>))
             ELSE everything
      ]_vars

\* one turn of a batch's loop
BatchTurn ==
    /\ InBatch
    /\ result'.op = result.op
    /\ result'.next = result.next + 1

\* GET /historical/{symbol} has answered
ReturnsEndpoint == result' # result /\ result'.op = "GET /historical"

\* the endpoint answers 503 and has not invoked the fetch
Answers503 ==
    /\ result'.status = 503
    /\ ~result'.fetch
    /\ ~result'.called

\* there is no stored handle or connected is false
Down == hb = "None" \/ ~connected

\* C38 as stated: every single-symbol fetch made without a connection raises
\* the 'no active connection' error, whatever the symbol.
C38_NoConnectionStrict ==
    [][/\ (ReturnsFetch /\ Down) =>
              /\ result'.outcome = "raise"
              /\ ~result'.called
              /\ result'.error = "no connection"
       /\ (BatchTurn /\ Down) =>
              /\ result'.fetched[result.next] = "raise"
              /\ result'.results[result.symbols[result.next]] = "empty"
       /\ (ReturnsEndpoint /\ Down) => Answers503
      ]_vars

\* C38: without a stored handle or with connected false, a single-symbol
\* fetch raises without a call to the provider, with the 'no active
\* connection' error unless it is the daily fetch of a reserved word, which
\* raises the reserved-word error; a turn of a batch taken in that state
\* records an empty frame for its symbol, so a batch all of whose turns
\* raised holds an empty frame for every requested symbol; the endpoint
\* answers 503 and does not invoke the fetch; and connected is never true
\* without a stored handle.
C38_NoConnectionNoFetch ==
    /\ [](hb = "None" => ~connected)
    /\ []((result.op \in HistoryOps /\ ~InBatch
             /\ \A i \in 1 .. Len(result.fetched) : result.fetched[i] = "raise") =>
              \A i \in 1 .. Len(result.symbols) :
                 /\ result.symbols[i] \in DOMAIN result.results
                 /\ result.results[result.symbols[i]] = "empty")
    /\ [][/\ (ReturnsFetch /\ Down) =>
                 /\ result'.outcome = "raise"
                 /\ ~result'.called
                 /\ result'.error =
                       IF /\ result'.op = "get_historical_data"
                          /\ Lower(result'.symbol) \in ReservedWords
                       THEN "reserved word" ELSE "no connection"
          /\ (BatchTurn /\ Down) =>
                 /\ result'.fetched[result.next] = "raise"
                 /\ result'.results[result.symbols[result.next]] = "empty"
          /\ (ReturnsEndpoint /\ Down) => Answers503
         ]_vars

\* a handle is stored, connected is false after an error, and the daily fetch
\* of an ordinary symbol has raised the 'no active connection' error
C38_Witness ==
    /\ hb # "None"
    /\ ~connected
    /\ result.op = "get_historical_data"
    /\ result.symbol = "AAA"
    /\ result.error = "no connection"

====
